---------------------------- MODULE Spec2Model ----------------------------
(***************************************************************************)
(* A model of src/validator.ts: the Validator combinators, the rule        *)
(* pipeline (performRule), the three transformers and the module-wide      *)
(* path stack scopeStack.                                                  *)
(*                                                                         *)
(* JavaScript values are records tagged by t.  Containers (objects and     *)
(* arrays) live in a heap and are denoted by references, so that identity  *)
(* (aliasing) and writes are observable.  User callbacks (predicates,      *)
(* sanitizers, plain transform functions) are named functions whose        *)
(* meaning is given by Holds and Apply.                                    *)
(***************************************************************************)
EXTENDS Integers, Sequences, FiniteSets, TLC

(* ------------------------------------------------------------------ *)
(* Bounds                                                             *)
(* ------------------------------------------------------------------ *)

\* The number of Validator objects constructed in one behaviour.
MaxValidators == 2

(* ------------------------------------------------------------------ *)
(* JavaScript values                                                  *)
(* ------------------------------------------------------------------ *)

Null == [t |-> "null", n |-> 0]

Undefined == [t |-> "undefined", n |-> 0]

Num(i) == [t |-> "number", n |-> i]

\* A reference to the container stored at heap[id].
Ref(id) == [t |-> "ref", n |-> id]

Str(s) == [t |-> "string", s |-> s]

\* A callback.  nilable counts the closures Validator.nilable wrapped around f.
Fn(f) == [t |-> "function", f |-> f, nilable |-> 0]

\* A Sanitizer object {before?, after?}; an absent member is Undefined.
Sanitizer(b, a) == [t |-> "sanitizer", before |-> b, after |-> a]

\* A Rule as the code writes it: the array [description, predicate, sanitizer?].
Tuple(items) == [t |-> "tuple", items |-> items]

\* v === null || v === undefined
IsNil(v) == v.t \in {"null", "undefined"}

\* v instanceof Object: containers (and functions, tuples, validators).
InstanceofObject(v) == v.t \in {"ref", "function", "tuple", "sanitizer", "validator"}

\* JavaScript truthiness of the values that reach `sfunc && sfunc.before`
\* and `!this.propRules[key]`.
Truthy(v) ==
    CASE v.t \in {"null", "undefined"} -> FALSE
      [] v.t = "number" -> v.n # 0
      [] v.t = "string" -> v.s # ""
      [] OTHER -> TRUE

(* ------------------------------------------------------------------ *)
(* The heap of containers                                             *)
(* ------------------------------------------------------------------ *)

\* A container: kind "object" or "array", and its own enumerable properties in
\* for-in order, each [k |-> name, v |-> value].  An array's names are its indices.
EmptyObject == [kind |-> "object", entries |-> <<>>]

EmptyArray == [kind |-> "array", entries |-> <<>>]

\* v instanceof Array
InstanceofArray(heap, v) == v.t = "ref" /\ heap[v.n].kind = "array"

\* The names `for (let key in c)` visits, in order.
ForInKeys(c) == [i \in 1..Len(c.entries) |-> c.entries[i].k]

HasOwn(c, key) == \E i \in 1..Len(c.entries) : c.entries[i].k = key

\* Names every plain object inherits from Object.prototype (non-enumerable there).
ObjectPrototypeKeys == {"toString", "constructor"}

\* c[key]: the own property, else the one inherited from Object.prototype, else undefined.
GetProp(c, key) ==
    IF HasOwn(c, key)
    THEN c.entries[CHOOSE i \in 1..Len(c.entries) : c.entries[i].k = key].v
    ELSE IF key \in ObjectPrototypeKeys THEN Fn(key)
    ELSE Undefined

\* c[key] = v
PutProp(c, key, v) ==
    IF HasOwn(c, key)
    THEN [c EXCEPT !.entries[CHOOSE i \in 1..Len(c.entries) : c.entries[i].k = key].v = v]
    ELSE [c EXCEPT !.entries = Append(@, [k |-> key, v |-> v])]

(* ------------------------------------------------------------------ *)
(* User callbacks                                                     *)
(* ------------------------------------------------------------------ *)

\* The boolean a named predicate returns on v: isNumber is
\* typeof v === 'number', isPositive is typeof v === 'number' && v > 0, any is
\* true; the other two are the predicates the code itself writes (lines 123,
\* 133, 137).
Holds(f, heap, v) ==
    CASE f = "isNumber" -> v.t = "number"
      [] f = "isPositive" -> v.t = "number" /\ v.n > 0
      [] f = "any" -> TRUE
      [] f = "instanceofObject" -> InstanceofObject(v)
      [] f = "instanceofArray" -> InstanceofArray(heap, v)
      [] OTHER -> FALSE

\* The value a named transform returns on v: negate is
\* v => typeof v === 'number' ? -v : v, nilToOne is v => v == null ? 1 : v.
Apply(f, v) ==
    CASE f = "negate" -> IF v.t = "number" THEN Num(0 - v.n) ELSE v
      [] f = "nilToOne" -> IF IsNil(v) THEN Num(1) ELSE v
      [] f = "identity" -> v
      [] OTHER -> v

(* ------------------------------------------------------------------ *)
(* Execution state threaded through one call tree                     *)
(* ------------------------------------------------------------------ *)

\* st = [stack |-> scopeStack, heap |-> the heap, log |-> the callbacks invoked
\* so far, in order].  A call's result is [st, out, val, msg]: out is "ok"
\* (returned val), "invalid" (threw ErrorInvalid(msg)) or "typeerror" (threw a
\* TypeError).
Ev(op, name, arg) == [op |-> op, name |-> name, arg |-> arg]

Log(st, op, name, arg) == [st EXCEPT !.log = Append(@, Ev(op, name, arg))]

Ok(st, v) == [st |-> st, out |-> "ok", val |-> v, msg |-> ""]

ThrowTypeError(st) == [st |-> st, out |-> "typeerror", val |-> Undefined, msg |-> "TypeError"]

StrSeg(s) == [t |-> "string", s |-> s, n |-> 0]

NumSeg(i) == [t |-> "number", s |-> "", n |-> i]

\* scopeStack.push(seg)
Push(st, seg) == [st EXCEPT !.stack = Append(@, seg)]

\* scopeStack.pop()
Pop(st) == [st EXCEPT !.stack = IF Len(@) = 0 THEN @ ELSE SubSeq(@, 1, Len(@) - 1)]

\* RenderSeg with the test `i !== 0` lost: a name is always prefixed by '.'.
RenderSeg_DotAlways(v, i) ==
    IF v.t = "number" THEN "[" \o ToString(v.n) \o "]" ELSE "." \o v.s

\* The callback of scopeStack.map in raiseError: segment v at index i (from 0).
RenderSeg(v, i) ==
    IF v.t = "number" THEN "[" \o ToString(v.n) \o "]"
    ELSE IF i # 0 THEN "." \o v.s
    ELSE v.s

RECURSIVE JoinFrom(_, _)
\* scopeStack.map(...).join('') from position i (from 1) on.
JoinFrom(stack, i) ==
    IF i > Len(stack) THEN ""
    ELSE RenderSeg(stack[i], i - 1) \o JoinFrom(stack, i + 1)

FullScope(stack) == JoinFrom(stack, 1)

\* raiseError(desc, prefix): prefix "" stands for an absent prefix.
raiseError(st, desc, prefix) ==
    [st |-> st, out |-> "invalid", val |-> Undefined,
     msg |-> FullScope(st.stack) \o ": "
               \o (IF prefix = "" THEN "requires" ELSE prefix) \o " " \o desc]


(* ------------------------------------------------------------------ *)
(* Rules                                                              *)
(* ------------------------------------------------------------------ *)

\* rule[i] as performRule reads it.  A tuple has its items; a string has its
\* characters (Char names character i of s); anything else has no such member.
Char(s, i) == [t |-> "string", s |-> "char", of |-> s, n |-> i]

Index(r, i) ==
    CASE r.t = "tuple" -> IF i < Len(r.items) THEN r.items[i + 1] ELSE Undefined
      [] r.t = "string" -> IF i < Len(r.s) THEN Char(r.s, i) ELSE Undefined
      [] OTHER -> Undefined

\* sfunc.before / sfunc.after
Member(v, name) ==
    IF v.t = "sanitizer"
    THEN (IF name = "before" THEN v.before ELSE v.after)
    ELSE Undefined

\* CallPredicate with the closure's test for null/undefined lost.
CallPredicate_NoShortCircuit(st, p, v) ==
    [st |-> IF p.nilable = 0 THEN st ELSE Log(st, "wrapped", p.f, v),
     b |-> Holds(p.f, st.heap, v)]

RECURSIVE CallPredicate(_, _, _)
\* vfunc(value) for a function vfunc: [st, b].  A closure made by nilable
\* (lines 147-150) answers true on null/undefined and otherwise calls the
\* predicate it wraps.
CallPredicate(st, p, v) ==
    IF p.nilable = 0
    THEN [st |-> st, b |-> Holds(p.f, st.heap, v)]
    ELSE IF IsNil(v) THEN [st |-> st, b |-> TRUE]
    ELSE CallPredicate(Log(st, "wrapped", p.f, v), [p EXCEPT !.nilable = @ - 1], v)

RECURSIVE performRule(_, _, _, _)
RECURSIVE performPropRule(_, _, _)
RECURSIVE Process(_, _, _)
RECURSIVE ObjectCheckKeys(_, _, _, _)
RECURSIVE ObjectCopyProps(_, _, _, _, _)
RECURSIVE IndexedCopyProps(_, _, _, _, _)
RECURSIVE ArrayCopyElems(_, _, _, _, _)
RECURSIVE RunExtraRules(_, _, _, _)
RECURSIVE run(_, _, _, _)

\* The closure `v => this.transformer ? this.transformer.process(v) : v` that
\* run hands to performRule.
Closure(transformer) == [t |-> "closure", transformer |-> transformer]

\* The closure's body (lines 165-167).
ClosureBody(st, transformer, v) ==
    IF Truthy(transformer) THEN Process(st, transformer, v) ELSE Ok(st, v)

\* The closure returning: r is what its body gave.
ClosureReturn(r) ==
    IF r.out = "ok"
    THEN [r EXCEPT !.st = Log(r.st, "transformer", "return", r.val)]
    ELSE r

\* transformer(value) in performRule, for the closure cb.
CallClosure(st, cb, v) ==
    ClosureReturn(ClosureBody(Log(st, "transformer", "call", v), cb.transformer, v))

\* AfterPredicate with sanitizer.after forgotten.
AfterPredicate_SkipsAfter(st, value, sfunc, transformer) ==
    IF Truthy(transformer) THEN CallClosure(st, transformer, value) ELSE Ok(st, value)

\* AfterPredicate with the two steps swapped: sanitizer.after, then the transformer.
AfterPredicate_AfterFirst(st, value, sfunc, transformer) ==
    LET has == Truthy(sfunc) /\ Truthy(Member(sfunc, "after"))
        s1  == IF has THEN Log(st, "after", Member(sfunc, "after").f, value) ELSE st
        v1  == IF has THEN Apply(Member(sfunc, "after").f, value) ELSE value
    IN  IF Truthy(transformer) THEN CallClosure(s1, transformer, v1) ELSE Ok(s1, v1)

\* Step 4 of performRule (lines 34-35) on the result r3 of step 3.
SanitizeAfter(r3, sfunc) ==
    IF r3.out # "ok" THEN r3
    ELSE IF Truthy(sfunc) /\ Truthy(Member(sfunc, "after"))
         THEN Ok(Log(r3.st, "after", Member(sfunc, "after").f, r3.val),
                 Apply(Member(sfunc, "after").f, r3.val))
         ELSE r3

\* Steps 3 and 4 of performRule: the transformer callback, then sanitizer.after.
AfterPredicate(st, value, sfunc, transformer) ==
    SanitizeAfter(IF Truthy(transformer) THEN CallClosure(st, transformer, value)
                  ELSE Ok(st, value),
                  sfunc)

\* performRule(value, rule, transformer); transformer Undefined when not given.
performRule(st, value, rule, transformer) ==
    IF IsNil(rule) THEN ThrowTypeError(st)
    ELSE
    LET desc  == Index(rule, 0)
        vfunc == Index(rule, 1)
        sfunc == Index(rule, 2)
        hasBefore == Truthy(sfunc) /\ Truthy(Member(sfunc, "before"))
        s1 == IF hasBefore THEN Log(st, "before", Member(sfunc, "before").f, value) ELSE st
        v1 == IF hasBefore THEN Apply(Member(sfunc, "before").f, value) ELSE value
    IN  IF vfunc.t # "function" THEN ThrowTypeError(s1)
        ELSE LET c == CallPredicate(Log(s1, "predicate", vfunc.f, v1), vfunc, v1)
             IN  IF ~c.b THEN raiseError(c.st, desc.s, "")
                 ELSE AfterPredicate(c.st, v1, sfunc, transformer)

\* performPropRule(prop, propRule)
performPropRule(st, prop, propRule) ==
    IF propRule.t = "validator" THEN run(st, propRule, prop, "")
    ELSE IF propRule.t = "function"
         THEN Ok(Log(st, "function", propRule.f, prop), Apply(propRule.f, prop))
    ELSE performRule(st, prop, propRule, Undefined)

(* ------------------------------------------------------------------ *)
(* Transformers                                                       *)
(* ------------------------------------------------------------------ *)

\* new Object / new Array: [st, id].
Alloc(st, c) == [st |-> [st EXCEPT !.heap = Append(@, c)], id |-> Len(st.heap) + 1]

\* copy[key] = v
Store(st, id, key, v) == [st EXCEPT !.heap[id] = PutProp(@, key, v)]

\* this.propRules[key]: propRules is the object literal given to
\* Validator.object, a sequence of [k, rule] in declaration order.
PropRulesGet(propRules, key) ==
    IF \E i \in 1..Len(propRules) : propRules[i].k = key
    THEN propRules[CHOOSE i \in 1..Len(propRules) : propRules[i].k = key].rule
    ELSE IF key \in ObjectPrototypeKeys THEN Fn(key)
    ELSE Undefined

\* ObjectCheckKeys raising at the path of the key itself.
ObjectCheckKeys_PushesKey(st, propRules, keys, i) ==
    IF i > Len(keys) THEN Ok(st, Undefined)
    ELSE IF ~Truthy(PropRulesGet(propRules, keys[i]))
         THEN [raiseError(Push(st, StrSeg(keys[i])), "'" \o keys[i] \o "'", "unknown property")
                 EXCEPT !.st = st]
    ELSE ObjectCheckKeys(st, propRules, keys, i + 1)

\* Lines 59-62: the scan of the input's keys, from the i-th on.
ObjectCheckKeys(st, propRules, keys, i) ==
    IF i > Len(keys) THEN Ok(st, Undefined)
    ELSE IF ~Truthy(PropRulesGet(propRules, keys[i]))
         THEN raiseError(st, "'" \o keys[i] \o "'", "unknown property")
    ELSE ObjectCheckKeys(st, propRules, keys, i + 1)

\* finally { scopeStack.pop() } on the result r of the try block.
PopFinally(r) == [r EXCEPT !.st = Pop(@)]

\* copy[key] = r, then the rest of the loop; an exception r leaves the loop.
ObjectCopyNext(r, propRules, obj, copy, i) ==
    IF r.out # "ok" THEN r
    ELSE ObjectCopyProps(Store(r.st, copy, propRules[i].k, r.val), propRules, obj, copy, i + 1)

\* Lines 65-72: the loop over the declared keys, from the i-th on.
ObjectCopyProps(st, propRules, obj, copy, i) ==
    IF i > Len(propRules) THEN Ok(st, Ref(copy))
    ELSE ObjectCopyNext(PopFinally(performPropRule(Push(st, StrSeg(propRules[i].k)),
                                                   GetProp(st.heap[obj], propRules[i].k),
                                                   propRules[i].rule)),
                        propRules, obj, copy, i)

\* copy[key] = r, then the rest of the loop; an exception r leaves the loop.
IndexedCopyNext(r, childRule, obj, copy, i) ==
    IF r.out # "ok" THEN r
    ELSE IndexedCopyProps(Store(r.st, copy, ForInKeys(r.st.heap[obj])[i], r.val),
                          childRule, obj, copy, i + 1)

\* Lines 85-92: the loop over the input's keys, from the i-th on.
IndexedCopyProps(st, childRule, obj, copy, i) ==
    LET keys == ForInKeys(st.heap[obj])
    IN  IF i > Len(keys) THEN Ok(st, Ref(copy))
        ELSE IndexedCopyNext(PopFinally(performPropRule(Push(st, StrSeg(keys[i])),
                                                        GetProp(st.heap[obj], keys[i]),
                                                        childRule)),
                             childRule, obj, copy, i)

\* copy[i] = r, then the rest of forEach; an exception r leaves it.
ArrayCopyNext(r, childRule, array, copy, i) ==
    IF r.out # "ok" THEN r
    ELSE ArrayCopyElems(Store(r.st, copy, ToString(i - 1), r.val),
                        childRule, array, copy, i + 1)

\* Lines 104-111: array.forEach, from element i (from 1; its index is i - 1) on.
ArrayCopyElems(st, childRule, array, copy, i) ==
    LET elems == st.heap[array].entries
    IN  IF i > Len(elems) THEN Ok(st, Ref(copy))
        ELSE ArrayCopyNext(PopFinally(performPropRule(Push(st, NumSeg(i - 1)),
                                                      elems[i].v, childRule)),
                           childRule, array, copy, i)

\* ObjectTransformer.process filling the input object instead of a new one.
ObjectProcess_InPlace(st, tr, v) ==
    IF v.t = "ref"
    THEN LET chk == ObjectCheckKeys(st, tr.propRules, ForInKeys(st.heap[v.n]), 1)
         IN  IF chk.out # "ok" THEN chk
             ELSE ObjectCopyProps(st, tr.propRules, v.n, v.n, 1)
    ELSE Ok(st, v)

\* ObjectTransformer.process
ObjectProcess(st, tr, v) ==
    IF v.t = "ref"
    THEN LET chk == ObjectCheckKeys(st, tr.propRules, ForInKeys(st.heap[v.n]), 1)
         IN  IF chk.out # "ok" THEN chk
             ELSE LET a == Alloc(st, EmptyObject)
                  IN  ObjectCopyProps(a.st, tr.propRules, v.n, a.id, 1)
    ELSE Ok(st, v)

\* IndexedObjectTransformer.process
IndexedObjectProcess(st, tr, v) ==
    IF v.t = "ref"
    THEN LET a == Alloc(st, EmptyObject)
         IN  IndexedCopyProps(a.st, tr.childRule, v.n, a.id, 1)
    ELSE Ok(st, v)

\* ArrayTransformer.process
ArrayProcess(st, tr, v) ==
    IF InstanceofArray(st.heap, v)
    THEN LET a == Alloc(st, EmptyArray)
         IN  ArrayCopyElems(a.st, tr.childRule, v.n, a.id, 1)
    ELSE Ok(st, v)

\* transformer.process(v), dispatched on the transformer's class.
Process(st, tr, v) ==
    CASE tr.t = "ObjectTransformer" -> ObjectProcess(st, tr, v)
      [] tr.t = "IndexedObjectTransformer" -> IndexedObjectProcess(st, tr, v)
      [] tr.t = "ArrayTransformer" -> ArrayProcess(st, tr, v)

(* ------------------------------------------------------------------ *)
(* Validator                                                          *)
(* ------------------------------------------------------------------ *)

\* new Validator(rule, transformer, extraRules)
NewValidator(rule, transformer, extraRules) ==
    [t |-> "validator", rule |-> rule, transformer |-> transformer,
     extraRules |-> extraRules]

\* Array.prototype.concat(item): an array argument is spread into its elements.
Concat(list, item) ==
    IF item.t = "tuple" THEN list \o item.items ELSE Append(list, item)

\* value = r, then the extra rules after the i-th; an exception r ends the run.
ThenExtraRules(r, extraRules, i) ==
    IF r.out # "ok" THEN r
    ELSE RunExtraRules(r.st, extraRules, i + 1, r.val)

\* Lines 169-171: this.extraRules.forEach, from the i-th element on.
RunExtraRules(st, extraRules, i, value) ==
    IF i > Len(extraRules) THEN Ok(st, value)
    ELSE ThenExtraRules(performRule(st, value, extraRules[i], Undefined), extraRules, i)

\* The try block of run (lines 164-172).
RunBody(st, V, value) ==
    ThenExtraRules(performRule(st, value, V.rule, Closure(V.transformer)),
                   V.extraRules, 0)

\* RunFinally without finally: the scope label is popped on return only.
RunFinally_PopOnSuccessOnly(r, scope) ==
    IF scope # "" /\ r.out = "ok" THEN [r EXCEPT !.st = Pop(@)] ELSE r

\* The finally block of run (lines 173-176), on the result r of the try block.
RunFinally(r, scope) ==
    IF scope # "" THEN [r EXCEPT !.st = Pop(@)] ELSE r

\* Validator.run(value, scope); scope "" stands for a falsy (absent) scope.
run(st, V, value, scope) ==
    LET s0 == Log(st, "run", Index(V.rule, 0).s, value)
        s1 == IF scope # "" THEN Push(s0, StrSeg(scope)) ELSE s0
    IN  RunFinally(RunBody(s1, V, value), scope)

\* Validator.regular(rule)
regular(rule) == NewValidator(rule, Null, <<>>)

\* Validator.object(propRules)
object(propRules) ==
    NewValidator(Tuple(<<Str("object"), Fn("instanceofObject")>>),
                 [t |-> "ObjectTransformer", propRules |-> propRules], <<>>)

\* V.forArray()
forArray(V) ==
    NewValidator(Tuple(<<Str("array"), Fn("instanceofArray")>>),
                 [t |-> "ArrayTransformer", childRule |-> V], <<>>)

\* V.forIndexedObject()
forIndexedObject(V) ==
    NewValidator(Tuple(<<Str("object"), Fn("instanceofObject")>>),
                 [t |-> "IndexedObjectTransformer", childRule |-> V], <<>>)

\* V.alter(rule)
alter(V, rule) == NewValidator(rule, V.transformer, V.extraRules)

\* nilable building the new Validator without the transformer.
nilable_DropsTransformer(V) ==
    NewValidator(Tuple(<<Index(V.rule, 0),
                         [Index(V.rule, 1) EXCEPT !.nilable = @ + 1],
                         Index(V.rule, 2)>>),
                 Null, V.extraRules)

\* V.nilable()
nilable(V) ==
    NewValidator(Tuple(<<Index(V.rule, 0),
                         [Index(V.rule, 1) EXCEPT !.nilable = @ + 1],
                         Index(V.rule, 2)>>),
                 V.transformer, V.extraRules)

\* V.extra(rule)
extra(V, rule) == NewValidator(V.rule, V.transformer, Concat(V.extraRules, rule))

(* ------------------------------------------------------------------ *)
(* Inputs of the operations                                           *)
(* ------------------------------------------------------------------ *)

\* ['positive', v => typeof v === 'number' && v > 0]
RPositive == Tuple(<<Str("positive"), Fn("isPositive")>>)

\* ['number', v => typeof v === 'number', {after: negate}]
RNumber == Tuple(<<Str("number"), Fn("isNumber"), Sanitizer(Undefined, Fn("negate"))>>)

\* ['any', v => true, {before: nilToOne, after: negate}]
RAny == Tuple(<<Str("any"), Fn("any"), Sanitizer(Fn("nilToOne"), Fn("negate"))>>)

\* The rules callers pass to regular.
Rules == {RPositive, RNumber, RAny}

\* The rules callers pass to alter.
AlterRules == {RNumber, RAny}

\* The rules callers pass to extra.
ExtraRules == {RPositive, RNumber}

\* What a schema may declare for a key besides a Validator: a Rule tuple or a
\* plain transform function.
PlainPropRules == {RPositive, RAny, Fn("negate")}

\* The object literals passed to Validator.object: key a alone, or a then b.
Schemas(pool) ==
    LET P == {pool[i] : i \in 1..Len(pool)} \cup PlainPropRules
    IN  {<<[k |-> "a", rule |-> p]>> : p \in P}
          \cup {<<[k |-> "a", rule |-> p], [k |-> "b", rule |-> RPositive]>> : p \in P}

Entry(k, v) == [k |-> k, v |-> v]

\* The containers a caller's inputs are made of.
InputHeap ==
    << [kind |-> "object", entries |-> <<Entry("a", Num(1))>>],
       [kind |-> "object", entries |-> <<Entry("a", Num(-1)), Entry("b", Num(1))>>],
       [kind |-> "object", entries |-> <<Entry("a", Ref(2))>>],
       [kind |-> "array",  entries |-> <<Entry("0", Num(1)), Entry("1", Num(-1))>>],
       [kind |-> "array",  entries |-> <<Entry("0", Ref(2))>>],
       [kind |-> "object", entries |-> <<Entry("a", Num(1)), Entry("toString", Num(1))>>],
       [kind |-> "object", entries |-> <<Entry("c", Num(1)), Entry("b", Num(1))>>],
       [kind |-> "object", entries |-> <<>>] >>

\* The values passed to run.
Inputs ==
    {Null, Undefined, Num(1), Num(-1)} \cup {Ref(i) : i \in 1..Len(InputHeap)}

\* The scope argument of a top-level run; "" is a call without scope.
Scopes == {"", "root"}

(* ------------------------------------------------------------------ *)
(* The state machine                                                  *)
(* ------------------------------------------------------------------ *)

VARIABLES
    validators,   \* the Validator objects constructed so far
    scopeStack,   \* the module-wide path stack (line 2)
    call,         \* the operation the caller performed last, "idle" after its outcome was taken
    outcome       \* what that operation gave: the result of a run, with the heap and the callbacks invoked

vars == <<validators, scopeStack, call, outcome>>

Call(op, src, rule, value, scope) ==
    [op |-> op, src |-> src, rule |-> rule, value |-> value, scope |-> scope]

Idle == Call("idle", 0, Undefined, Undefined, "")

NoOutcome == [out |-> "none", val |-> Undefined, msg |-> "", heap |-> <<>>, log |-> <<>>]

Init ==
    /\ validators = <<>>
    /\ scopeStack = <<>>
    /\ call = Idle
    /\ outcome = NoOutcome

\* The list of validators after a constructor or combinator made W.
Construct(pool, src, W) == Append(pool, W)

Build(op, src, rule, W) ==
    /\ call = Idle
    /\ Len(validators) < MaxValidators
    /\ validators' = Construct(validators, src, W)
    /\ call' = Call(op, src, rule, Undefined, "")
    /\ UNCHANGED <<scopeStack, outcome>>

Regular == \E rule \in Rules : Build("regular", 0, rule, regular(rule))

Object == \E propRules \in Schemas(validators) :
              Build("object", 0, Undefined, object(propRules))

ForArray == \E i \in 1..Len(validators) :
                Build("forArray", i, Undefined, forArray(validators[i]))

ForIndexedObject == \E i \in 1..Len(validators) :
                        Build("forIndexedObject", i, Undefined, forIndexedObject(validators[i]))

Alter == \E i \in 1..Len(validators), rule \in AlterRules :
             Build("alter", i, rule, alter(validators[i], rule))

Nilable == \E i \in 1..Len(validators) :
               Build("nilable", i, Undefined, nilable(validators[i]))

Extra == \E i \in 1..Len(validators), rule \in ExtraRules :
             Build("extra", i, rule, extra(validators[i], rule))

\* What the caller of a top-level run observes of its result r.
Outcome(r) ==
    [out |-> r.out, val |-> r.val, msg |-> r.msg, heap |-> r.st.heap, log |-> r.st.log]

\* A top-level validators[i].run(value, scope).
Run ==
    /\ call = Idle
    /\ \E i \in 1..Len(validators), value \in Inputs, scope \in Scopes :
           \E r \in {run([stack |-> scopeStack, heap |-> InputHeap, log |-> <<>>],
                         validators[i], value, scope)} :
               /\ scopeStack' = r.st.stack
               /\ call' = Call("run", i, Undefined, value, scope)
               /\ outcome' = Outcome(r)
               /\ UNCHANGED validators

\* The caller takes the outcome (the returned value or the caught error).
Return ==
    /\ call # Idle
    /\ call' = Idle
    /\ outcome' = NoOutcome
    /\ UNCHANGED <<validators, scopeStack>>

Next ==
    \/ Regular
    \/ Object
    \/ ForArray
    \/ ForIndexedObject
    \/ Alter
    \/ Nilable
    \/ Extra
    \/ Run
    \/ Return

Spec == Init /\ [][Next]_vars

(* ------------------------------------------------------------------ *)
(* Reference: validation with the path passed down explicitly         *)
(* ------------------------------------------------------------------ *)

\* The validator and the input of the run the caller performed last.
RunValidator == validators[call.src]

IsRun == call.op = "run"

\* The path of the root value: the scope label when one was given.
RootPath(scope) == IF scope = "" THEN <<>> ELSE <<StrSeg(scope)>>

RECURSIVE PathText(_)
\* A path as text: the first segment bare, a later name after '.', an index as [n].
PathText(path) ==
    IF path = <<>> THEN ""
    ELSE LET n   == Len(path)
             seg == path[n]
         IN  PathText(SubSeq(path, 1, n - 1))
               \o (IF seg.t = "number" THEN "[" \o ToString(seg.n) \o "]"
                   ELSE IF n = 1 THEN seg.s
                   ELSE "." \o seg.s)

NoFailure == [out |-> "ok", msg |-> ""]

Failure(path, prefix, desc) ==
    [out |-> "invalid", msg |-> PathText(path) \o ": " \o prefix \o " " \o desc]

\* Whether predicate p accepts v: a nilable predicate accepts null and undefined.
Accepts(p, v) == (p.nilable > 0 /\ IsNil(v)) \/ Holds(p.f, InputHeap, v)

\* The value a rule's predicate is applied to: v after the before-sanitizer.
Sanitized(rule, v) ==
    IF Truthy(Member(Index(rule, 2), "before"))
    THEN Apply(Member(Index(rule, 2), "before").f, v)
    ELSE v

\* Whether the schema object has a member named key, its own or inherited.
Declares(propRules, key) ==
    \/ \E i \in 1..Len(propRules) : propRules[i].k = key
    \/ key \in ObjectPrototypeKeys

\* The values a transformer descends into, in order, each with its path
\* segment and its rule: none when the transformer does not handle v.
Children(tr, v) ==
    LET c == InputHeap[v.n]
    IN  CASE tr.t = "ObjectTransformer" /\ v.t = "ref" ->
               [i \in 1..Len(tr.propRules) |->
                   [seg |-> StrSeg(tr.propRules[i].k),
                    v |-> GetProp(c, tr.propRules[i].k),
                    rule |-> tr.propRules[i].rule]]
          [] tr.t = "IndexedObjectTransformer" /\ v.t = "ref" ->
               [i \in 1..Len(c.entries) |->
                   [seg |-> StrSeg(c.entries[i].k), v |-> c.entries[i].v,
                    rule |-> tr.childRule]]
          [] tr.t = "ArrayTransformer" /\ v.t = "ref" /\ c.kind = "array" ->
               [i \in 1..Len(c.entries) |->
                   [seg |-> NumSeg(i - 1), v |-> c.entries[i].v, rule |-> tr.childRule]]
          [] OTHER -> <<>>

\* The positions of the keys of v that a strict object schema does not declare.
Undeclared(tr, v) ==
    IF tr.t = "ObjectTransformer" /\ v.t = "ref"
    THEN {i \in 1..Len(InputHeap[v.n].entries) :
              ~Declares(tr.propRules, InputHeap[v.n].entries[i].k)}
    ELSE {}

Min(S) == CHOOSE x \in S : \A y \in S : x <= y

RECURSIVE Walk(_, _, _)
RECURSIVE WalkChildren(_, _, _)

\* The first failure among children i, i+1, ... of the value at path.
WalkChildren(children, i, path) ==
    IF i > Len(children) THEN NoFailure
    ELSE LET w == Walk(children[i].rule, children[i].v, Append(path, children[i].seg))
         IN  IF w.out # "ok" THEN w ELSE WalkChildren(children, i + 1, path)

\* The first failure of property rule r on the value v found at path: a
\* predicate that rejects its value fails at the value's path; an undeclared
\* key fails at the path of the object that holds it.  Extra rules are not
\* looked at.
Walk(r, v, path) ==
    IF r.t = "function" THEN NoFailure
    ELSE LET rule == IF r.t = "validator" THEN r.rule ELSE r
             tr   == IF r.t = "validator" THEN r.transformer ELSE Null
             v1   == Sanitized(rule, v)
         IN  IF ~Accepts(Index(rule, 1), v1)
             THEN Failure(path, "requires", Index(rule, 0).s)
             ELSE IF Undeclared(tr, v1) # {}
             THEN Failure(path, "unknown property",
                          "'" \o InputHeap[v1.n].entries[Min(Undeclared(tr, v1))].k \o "'")
             ELSE WalkChildren(Children(tr, v1), 1, path)

\* The failure the reference finds for the last run.
Expected == Walk(RunValidator, call.value, RootPath(call.scope))

\* The last run threw ErrorInvalid from a predicate that returned false.
PredicateFailed ==
    /\ IsRun /\ outcome.out = "invalid"
    /\ outcome.log[Len(outcome.log)].op \in {"predicate", "wrapped"}

\* The last run threw ErrorInvalid from the key scan of an ObjectTransformer.
UnknownPropertyRaised ==
    /\ IsRun /\ outcome.out = "invalid"
    /\ outcome.log[Len(outcome.log)].op = "transformer"

\* A validator exactly as Validator.object builds it.
IsObjectValidator(V) ==
    /\ V.transformer.t = "ObjectTransformer"
    /\ V = object(V.transformer.propRules)

\* The keys of input v that are absent from the keys the schema declares.
KeysAbsentFrom(propRules, v) ==
    IF v.t = "ref"
    THEN {i \in 1..Len(InputHeap[v.n].entries) :
              \A j \in 1..Len(propRules) : propRules[j].k # InputHeap[v.n].entries[i].k}
    ELSE {}

(* ------------------------------------------------------------------ *)
(* Claims                                                             *)
(* ------------------------------------------------------------------ *)

\* C1: whenever a top-level run has returned or raised, scopeStack holds what
\* it held before the call; between top-level calls it is empty, so no later
\* run starts from segments an earlier one left behind.
C1_ScopeStackRestored == scopeStack = <<>>

\* C1 witness: a run with a scope label failed inside a nested validator, that
\* is below two pushed segments.
C1_Witness ==
    /\ IsRun /\ outcome.out = "invalid" /\ call.scope = "root"
    /\ \E i \in 2..Len(outcome.log) : outcome.log[i].op = "run"

\* C2 (as claimed): a run of Validator.object(schema) on a container with a key
\* absent from the schema raises, and does so before any property rule runs:
\* the log holds nothing after run's entry, the primary predicate and the
\* transformer call.
C2_UnknownKeyRaisesBeforeProps ==
    (/\ IsRun
     /\ IsObjectValidator(RunValidator)
     /\ KeysAbsentFrom(RunValidator.transformer.propRules, call.value) # {})
        => (outcome.out = "invalid" /\ Len(outcome.log) = 3)

\* C3 (as claimed): the error for an unknown key k of the top-level input
\* carries the path of k itself, the scope label followed by k.
C3_PathEndsWithKey ==
    (/\ UnknownPropertyRaised
     /\ IsObjectValidator(RunValidator)
     /\ Len(outcome.log) = 3)
        => LET k == InputHeap[call.value.n].entries[
                        Min(Undeclared(RunValidator.transformer, call.value))].k
           IN  outcome.msg = PathText(Append(RootPath(call.scope), StrSeg(k)))
                                \o ": unknown property '" \o k \o "'"

\* C3 (amended): an unknown-property error reads
\* "<path>: unknown property '<k>'", where <path> is the path of the object
\* that holds k (not followed by k) and k is the first key, in enumeration
\* order, that the schema has no member for.
C3_PathIsEnclosingObject ==
    UnknownPropertyRaised => (Expected.out = "invalid" /\ outcome.msg = Expected.msg)

\* C3 witness: an unknown key b inside the object stored under a, run with
\* scope root.
C3_Witness ==
    /\ UnknownPropertyRaised
    /\ outcome.msg = "root.a: unknown property 'b'"

\* C4: when a predicate returns false, run raises "<path>: requires
\* <description>" with the failing rule's description and the path from the
\* scope label down to the failing value, one segment per key or index.
C4_PredicateFailurePath ==
    PredicateFailed => (Expected.out = "invalid" /\ outcome.msg = Expected.msg)

\* C4 witness: key a of the object under key a fails, run with scope root.
C4_Witness ==
    /\ PredicateFailed
    /\ outcome.msg = "root.a.a: requires positive"

\* The state a top-level run starts from.
St0 == [stack |-> <<>>, heap |-> InputHeap, log |-> <<>>]

\* The primary predicate of V is a closure made by nilable.
IsNilable(V) == Index(V.rule, 1).nilable > 0

\* V with one nilable closure taken off its primary predicate.
Unwrapped(V) == [V EXCEPT !.rule.items[2].nilable = @ - 1]

\* The sanitizers of rule, where present, return the nil value v unchanged.
SanitizersKeep(rule, v) ==
    /\ Sanitized(rule, v) = v
    /\ Truthy(Member(Index(rule, 2), "after"))
          => Apply(Member(Index(rule, 2), "after").f, v) = v

WrappedInvoked == \E i \in 1..Len(outcome.log) : outcome.log[i].op = "wrapped"

\* C5 (as claimed): every nilable validator returns the nil value it is given,
\* without raising and without invoking the wrapped predicate.
C5_NilAlwaysAccepted ==
    (IsRun /\ IsNilable(RunValidator) /\ IsNil(call.value))
        => (outcome.out = "ok" /\ outcome.val = call.value /\ ~WrappedInvoked)

\* C5 (amended): a nilable validator without extra rules whose sanitizers leave
\* nil values nil returns the nil value it is given, without raising, without
\* invoking the wrapped predicate, the transformer passing the nil value
\* through; and on a value that is not nil, also after the before-sanitizer, a
\* nilable validator gives the outcome of the validator it wraps.
C5_NilableOutcome ==
    (IsRun /\ IsNilable(RunValidator)) =>
        /\ (/\ IsNil(call.value)
            /\ RunValidator.extraRules = <<>>
            /\ SanitizersKeep(RunValidator.rule, call.value))
              => /\ outcome.out = "ok" /\ outcome.val = call.value
                 /\ ~WrappedInvoked
                 /\ \E i \in 1..(Len(outcome.log) - 1) :
                       /\ outcome.log[i] = Ev("transformer", "call", call.value)
                       /\ outcome.log[i + 1] = Ev("transformer", "return", call.value)
        /\ (~IsNil(call.value) /\ ~IsNil(Sanitized(RunValidator.rule, call.value)))
              => LET r == run(St0, Unwrapped(RunValidator), call.value, call.scope)
                 IN  /\ outcome.out = r.out /\ outcome.msg = r.msg
                     /\ outcome.val = r.val /\ outcome.heap = r.st.heap

\* C5 witness: a nilable object validator was given null and returned it.
C5_Witness ==
    /\ IsRun /\ IsNilable(RunValidator) /\ call.value = Null
    /\ RunValidator.transformer.t = "ObjectTransformer"
    /\ outcome.out = "ok" /\ outcome.val = Null

\* C6 (as claimed): extra(rule) appends exactly the one rule, and a value that
\* passes the primary rule but fails the extra rule's predicate makes run raise
\* ErrorInvalid with the extra rule's description.
C6_ExtraRuleAppendedAndReported ==
    /\ call.op = "extra"
          => validators[Len(validators)].extraRules
                = Append(validators[call.src].extraRules, call.rule)
    /\ IsRun =>
          \A b \in 1..Len(validators), E \in ExtraRules :
              (/\ RunValidator = extra(validators[b], E)
               /\ validators[b].extraRules = <<>>
               /\ LET r == run(St0, validators[b], call.value, call.scope)
                  IN  r.out = "ok" /\ ~Accepts(Index(E, 1), Sanitized(E, r.val)))
                  => /\ outcome.out = "invalid"
                     /\ outcome.msg = PathText(RootPath(call.scope))
                                         \o ": requires " \o Index(E, 0).s

\* A container allocated by the run, not one of the input's.
Fresh(id) == id > Len(InputHeap)

InputUnchanged == SubSeq(outcome.heap, 1, Len(InputHeap)) = InputHeap

RECURSIVE Reach(_, _)
\* The containers reachable from v in heap.
Reach(heap, v) ==
    IF v.t # "ref" THEN {}
    ELSE {v.n} \cup UNION {Reach(heap, heap[v.n].entries[i].v) :
                              i \in 1..Len(heap[v.n].entries)}

\* A validator exactly as object, forArray or forIndexedObject builds it.
IsBuiltWithTransformer(V) ==
    CASE V.transformer.t = "ObjectTransformer" -> V = object(V.transformer.propRules)
      [] V.transformer.t = "ArrayTransformer" -> V = forArray(V.transformer.childRule)
      [] V.transformer.t = "IndexedObjectTransformer" ->
             V = forIndexedObject(V.transformer.childRule)
      [] OTHER -> FALSE

RECURSIVE CopiedWhereProcessed(_, _)
\* In the result v of property rule r: every container a transformer processed
\* (any container for an object or indexed-object transformer, an array for an
\* array transformer) is a fresh one, and so on below it.
CopiedWhereProcessed(r, v) ==
    IF r.t = "validator" /\ Truthy(r.transformer) /\ v.t = "ref"
    THEN LET c  == outcome.heap[v.n]
             tr == r.transformer
         IN  CASE tr.t = "ObjectTransformer" ->
                    /\ Fresh(v.n)
                    /\ \A i \in 1..Len(tr.propRules) :
                          CopiedWhereProcessed(tr.propRules[i].rule,
                                               GetProp(c, tr.propRules[i].k))
               [] tr.t = "IndexedObjectTransformer" ->
                    /\ Fresh(v.n)
                    /\ \A i \in 1..Len(c.entries) :
                          CopiedWhereProcessed(tr.childRule, c.entries[i].v)
               [] tr.t = "ArrayTransformer" ->
                    c.kind = "array" =>
                        /\ Fresh(v.n)
                        /\ \A i \in 1..Len(c.entries) :
                              CopiedWhereProcessed(tr.childRule, c.entries[i].v)
    ELSE TRUE

\* C7 (as claimed): the result of a successful run of a validator built with a
\* transformer on a container shares no container with the input, at any depth.
C7_DeepCopy ==
    (/\ IsRun /\ outcome.out = "ok"
     /\ IsBuiltWithTransformer(RunValidator)
     /\ call.value.t = "ref")
        => /\ outcome.val.t = "ref"
           /\ \A id \in Reach(outcome.heap, outcome.val) : Fresh(id)
           /\ InputUnchanged

\* C7 (amended): run never writes to the input; the container a transformer
\* returns for a container it processes is newly allocated, at the top and
\* wherever a nested Validator's transformer processes a nested container;
\* a container governed by a Rule tuple, a plain transform function or a
\* Validator without transformer is not copied.
C7_CopiedWhereTransformed ==
    IsRun =>
        /\ InputUnchanged
        /\ outcome.out = "ok" => CopiedWhereProcessed(RunValidator, outcome.val)
        /\ (/\ outcome.out = "ok" /\ IsBuiltWithTransformer(RunValidator)
            /\ call.value.t = "ref")
              => (outcome.val.t = "ref" /\ Fresh(outcome.val.n))

\* C7 witness: an object validator with a nested validator returned a fresh
\* object holding a fresh nested object.
C7_Witness ==
    /\ IsRun /\ outcome.out = "ok" /\ call.value = Ref(3)
    /\ IsBuiltWithTransformer(RunValidator)
    /\ outcome.val.t = "ref" /\ Fresh(outcome.val.n)
    /\ GetProp(outcome.heap[outcome.val.n], "a").t = "ref"
    /\ Fresh(GetProp(outcome.heap[outcome.val.n], "a").n)

RECURSIVE ReadTree(_, _)
\* The value v of heap as a tree: a container becomes its kind and its
\* entries, each value read in turn.
ReadTree(heap, v) ==
    IF v.t # "ref" THEN v
    ELSE [t |-> heap[v.n].kind,
          entries |-> [i \in 1..Len(heap[v.n].entries) |->
                          [k |-> heap[v.n].entries[i].k,
                           v |-> ReadTree(heap, heap[v.n].entries[i].v)]]]

\* The name under which a transformer stores the child found at segment seg.
SegName(seg) == IF seg.t = "number" THEN ToString(seg.n) ELSE seg.s

\* Transformer tr processes the value v (otherwise it passes v through).
Handles(tr, v) ==
    CASE tr.t \in {"ObjectTransformer", "IndexedObjectTransformer"} -> v.t = "ref"
      [] tr.t = "ArrayTransformer" -> v.t = "ref" /\ InputHeap[v.n].kind = "array"
      [] OTHER -> FALSE

RECURSIVE Image(_, _)
\* What property rule r makes of the input value v when nothing fails, as a
\* tree: v after the before-sanitizer; where a transformer processes it, a
\* container with the declared keys (object) or the input's keys or indices
\* (indexed object, array), each holding the image of the input's value
\* there; then the after-sanitizer.  A plain function gives its result.
Image(r, v) ==
    IF r.t = "function" THEN ReadTree(InputHeap, Apply(r.f, v))
    ELSE LET rule == IF r.t = "validator" THEN r.rule ELSE r
             tr   == IF r.t = "validator" THEN r.transformer ELSE Null
             v1   == Sanitized(rule, v)
             ch   == Children(tr, v1)
             y    == IF Handles(tr, v1)
                     THEN [t |-> IF tr.t = "ArrayTransformer" THEN "array" ELSE "object",
                           entries |-> [i \in 1..Len(ch) |->
                                           [k |-> SegName(ch[i].seg),
                                            v |-> Image(ch[i].rule, ch[i].v)]]]
                     ELSE ReadTree(InputHeap, v1)
         IN  IF Truthy(Member(Index(rule, 2), "after"))
             THEN Apply(Member(Index(rule, 2), "after").f, y)
             ELSE y

RECURSIVE HasExtraRules(_)
\* Some validator in property rule r has extra rules.
HasExtraRules(r) ==
    /\ r.t = "validator"
    /\ \/ r.extraRules # <<>>
       \/ CASE r.transformer.t = "ObjectTransformer" ->
                 \E i \in 1..Len(r.transformer.propRules) :
                     HasExtraRules(r.transformer.propRules[i].rule)
            [] r.transformer.t \in {"ArrayTransformer", "IndexedObjectTransformer"} ->
                 HasExtraRules(r.transformer.childRule)
            [] OTHER -> FALSE

RECURSIVE SameKeys(_, _)
\* Trees x and y have the same keys or indices, at every depth.
SameKeys(x, y) ==
    IF x.t \in {"object", "array"}
    THEN /\ y.t \in {"object", "array"}
         /\ Len(x.entries) = Len(y.entries)
         /\ \A i \in 1..Len(x.entries) :
               \E j \in 1..Len(y.entries) :
                   /\ x.entries[i].k = y.entries[j].k
                   /\ SameKeys(x.entries[i].v, y.entries[j].v)
    ELSE y.t \notin {"object", "array"}

\* The primary predicate of the last run's validator holds on the input (after
\* the before-sanitizer, as performRule applies it).
PrimaryHolds == Accepts(Index(RunValidator.rule, 1), Sanitized(RunValidator.rule, call.value))

\* The input has no key outside the schema, when the validator is object-shaped.
NoUnknownKeys ==
    RunValidator.transformer.t = "ObjectTransformer"
        => KeysAbsentFrom(RunValidator.transformer.propRules, call.value) = {}

\* C8 (as claimed): when the primary predicate holds and the input has no
\* unknown key, run does not raise and returns a value with the keys and
\* indices of the input.
C8_PrimaryHoldsThenAccepted ==
    (IsRun /\ PrimaryHolds /\ NoUnknownKeys)
        => /\ outcome.out = "ok"
           /\ SameKeys(ReadTree(InputHeap, call.value),
                       ReadTree(outcome.heap, outcome.val))

\* C8 (amended): when no validator involved has extra rules, every predicate
\* on the way (the primary one and each nested rule's, on its value after the
\* before-sanitizer) holds and every strictly checked object has only keys the
\* schema has a member for, run does not raise and returns the input's image:
\* each transformed container holds the declared keys (object) or the input's
\* keys or indices (indexed object, array), each value being the input's value
\* there (undefined for a declared key the input lacks) as changed by its
\* rule's sanitizers or plain transform function.
C8_AcceptedImage ==
    (IsRun /\ ~HasExtraRules(RunValidator) /\ Expected.out = "ok")
        => /\ outcome.out = "ok"
           /\ ReadTree(outcome.heap, outcome.val) = Image(RunValidator, call.value)

\* C8 witness: an object validator accepted {a: {a: -1, b: 1}} and returned
\* an object whose a is an object again.
C8_Witness ==
    /\ IsRun /\ ~HasExtraRules(RunValidator) /\ Expected.out = "ok"
    /\ call.value = Ref(3)
    /\ RunValidator.transformer.t = "ObjectTransformer"
    /\ outcome.val.t = "ref"
    /\ GetProp(outcome.heap[outcome.val.n], "a").t = "ref"

\* C9: no operation changes a Validator that exists; the Validator a
\* combinator makes carries over the parts the combinator does not replace.
C9_ValidatorsImmutable ==
    [][/\ Len(validators') >= Len(validators)
       /\ \A i \in 1..Len(validators) : validators'[i] = validators[i]
       /\ call'.op \in {"alter", "nilable", "extra"} =>
             LET V == validators[call'.src]
                 W == validators'[Len(validators')]
             IN  /\ Len(validators') = Len(validators) + 1
                 /\ W.transformer = V.transformer
                 /\ call'.op = "alter" =>
                       (W.rule = call'.rule /\ W.extraRules = V.extraRules)
                 /\ call'.op = "nilable" =>
                       (/\ W.extraRules = V.extraRules
                        /\ Index(W.rule, 0) = Index(V.rule, 0)
                        /\ Index(W.rule, 2) = Index(V.rule, 2))
                 /\ call'.op = "extra" =>
                       (/\ W.rule = V.rule
                        /\ Len(W.extraRules) >= Len(V.extraRules)
                        /\ SubSeq(W.extraRules, 1, Len(V.extraRules)) = V.extraRules)
      ]_vars

\* C9 witness: nilable was applied to an object validator, which is still there
\* beside the validator derived from it.
C9_Witness ==
    /\ call.op = "nilable" /\ Len(validators) = 2 /\ call.src = 1
    /\ validators[1].transformer.t = "ObjectTransformer"
    /\ validators[2].transformer = validators[1].transformer

\* C10: the top-level rule of a run performs before-sanitizer, predicate,
\* transform callback, after-sanitizer in this order: the predicate sees the
\* before-sanitizer's output; a false predicate raises "requires
\* <description>" and nothing else is invoked; a true one is followed by the
\* transform callback on the same value; the after-sanitizer receives what the
\* callback returned.
C10_RuleStepOrder ==
    IsRun =>
        LET rule   == RunValidator.rule
            before == Member(Index(rule, 2), "before")
            after  == Member(Index(rule, 2), "after")
            v1     == IF Truthy(before) THEN Apply(before.f, call.value) ELSE call.value
            log    == outcome.log
            p      == IF Truthy(before) THEN 3 ELSE 2
            calls  == {i \in 1..Len(log) : log[i].op = "transformer" /\ log[i].name = "call"}
            rets   == {i \in 1..Len(log) : log[i].op = "transformer" /\ log[i].name = "return"}
        IN  /\ Truthy(before) => log[2] = Ev("before", before.f, call.value)
            /\ Len(log) >= p /\ log[p] = Ev("predicate", Index(rule, 1).f, v1)
            /\ ~Accepts(Index(rule, 1), v1) =>
                  /\ outcome.out = "invalid"
                  /\ outcome.msg = PathText(RootPath(call.scope))
                                      \o ": requires " \o Index(rule, 0).s
                  /\ \A i \in 1..Len(log) : log[i].op \notin {"transformer", "after", "function"}
            /\ Accepts(Index(rule, 1), v1) =>
                  /\ calls # {}
                  /\ log[Min(calls)] = Ev("transformer", "call", v1)
                  /\ \A i \in (p + 1)..(Min(calls) - 1) : log[i].op = "wrapped"
                  /\ \A i \in 1..Min(calls) : log[i].op # "after"
                  /\ Cardinality(calls) = Cardinality(rets) =>
                        IF Truthy(after)
                        THEN /\ log[Len(log) - 1].op = "transformer"
                             /\ log[Len(log) - 1].name = "return"
                             /\ log[Len(log)] = Ev("after", after.f, log[Len(log) - 1].arg)
                             /\ outcome.out = "ok"
                                   => outcome.val = Apply(after.f, log[Len(log) - 1].arg)
                        ELSE /\ log[Len(log)].op = "transformer"
                             /\ log[Len(log)].name = "return"
                             /\ outcome.out = "ok" => outcome.val = log[Len(log)].arg

\* C10 witness: a rule with both sanitizers ran in front of an object
\* transformer: before-sanitizer, predicate, the transformer with the rules of
\* the keys, and last the after-sanitizer on the transformer's new object.
C10_Witness ==
    /\ IsRun /\ call.value = Ref(1) /\ RunValidator.rule = RAny
    /\ RunValidator.transformer.t = "ObjectTransformer"
    /\ outcome.out = "ok" /\ outcome.val.t = "ref" /\ Fresh(outcome.val.n)
    /\ outcome.log[2].op = "before"
    /\ outcome.log[Len(outcome.log)] = Ev("after", "negate", outcome.val)

=============================================================================
